---------------------------- MODULE Spec2Model ----------------------------
(***************************************************************************)
(* Model of scraper/scrape_fide_calendar.py: the date range resolver, the  *)
(* record assembler (scrape_one), the calendar encoder (write_ics) and the *)
(* sequential main loop.                                                   *)
(*                                                                         *)
(* Strings are modelled as sequences of tokens.  A token is a one-field    *)
(* record: [num |-> 20] (one or two digits), [mon |-> "Aug"] (a word of    *)
(* the MONTHS vocabulary), [year |-> 2025] (four digits), [time |->        *)
(* <<14, 0>>] (HH:MM), [sep |-> "-"] (hyphen, en-dash or the word "to"),   *)
(* [iso |-> <<2025, 8, 20>>] (a numeric date such as 2025-08-20),          *)
(* [label |-> "Date"] (letters followed by a colon) and [word |-> "x"].    *)
(* White space between tokens is not modelled.  A text is a sequence of    *)
(* lines, a line a sequence of tokens.                                     *)
(***************************************************************************)
EXTENDS Integers, Sequences, FiniteSets, TLC

VARIABLES URLS, today, slot, pc, full, results, events, ev, k, doc, res

vars == <<URLS, today, slot, pc, full, results, events, ev, k, doc, res>>

-----------------------------------------------------------------------------
(* Values *)

\* Python's None
None == [none |-> TRUE]

Num(n) == [num |-> n]
Mon(m) == [mon |-> m]
Year(y) == [year |-> y]
Time(h, mi) == [time |-> <<h, mi>>]
Sep(s) == [sep |-> s]
Iso(y, m, d) == [iso |-> <<y, m, d>>]
Label(l) == [label |-> l]
Word(w) == [word |-> w]

IsNum(t) == DOMAIN t = {"num"}
IsMon(t) == DOMAIN t = {"mon"}
IsYear(t) == DOMAIN t = {"year"}
IsTime(t) == DOMAIN t = {"time"}
IsSep(t) == DOMAIN t = {"sep"}
IsIso(t) == DOMAIN t = {"iso"}
IsLabel(t) == DOMAIN t = {"label"}

Min(S) == CHOOSE x \in S : \A y \in S : x <= y

\* the month a name of the MONTHS vocabulary stands for
MonthNum(name) ==
    CASE name \in {"Jan", "January"} -> 1
      [] name \in {"Feb", "February"} -> 2
      [] name \in {"Mar", "March"} -> 3
      [] name \in {"Apr", "April"} -> 4
      [] name = "May" -> 5
      [] name \in {"Jun", "June"} -> 6
      [] name \in {"Jul", "July"} -> 7
      [] name \in {"Aug", "August"} -> 8
      [] name \in {"Sep", "Sept", "September"} -> 9
      [] name \in {"Oct", "October"} -> 10
      [] name \in {"Nov", "November"} -> 11
      [] name \in {"Dec", "December"} -> 12

IsLeap(y) == (y % 4 = 0 /\ y % 100 # 0) \/ y % 400 = 0

DaysInMonth(y, m) ==
    IF m = 2 THEN (IF IsLeap(y) THEN 29 ELSE 28)
    ELSE IF m \in {4, 6, 9, 11} THEN 30 ELSE 31

\* a calendar date is [y, m, d]; a datetime is [date, tod], tod in minutes
Date(y, m, d) == [y |-> y, m |-> m, d |-> d]
DateTime(dt, tod) == [date |-> dt, tod |-> tod]

\* date + timedelta(days=1)
AddDay(dt) ==
    IF dt.d < DaysInMonth(dt.y, dt.m) THEN Date(dt.y, dt.m, dt.d + 1)
    ELSE IF dt.m < 12 THEN Date(dt.y, dt.m + 1, 1)
    ELSE Date(dt.y + 1, 1, 1)

-----------------------------------------------------------------------------
(* dateutil's parse, as parse_maybe_dt uses it *)

\* dtp.parse(s, dayfirst=True): the fields the string does not give come from
\* the default, today at midnight; a day the default gives is clamped to the
\* month; anything that is no date or time, a second month, day, year or
\* time, or a day or time out of range raises
DateutilParse(s, now) ==
    LET nums == {i \in 1..Len(s) : IsNum(s[i])}
        mons == {i \in 1..Len(s) : IsMon(s[i])}
        years == {i \in 1..Len(s) : IsYear(s[i])}
        times == {i \in 1..Len(s) : IsTime(s[i])}
        isos == {i \in 1..Len(s) : IsIso(s[i])}
        known == nums \cup mons \cup years \cup times \cup isos
    IN  IF known # 1..Len(s) THEN None
        ELSE IF isos # {}
        THEN (IF Len(s) = 1
              THEN DateTime(Date(s[1].iso[1], s[1].iso[2], s[1].iso[3]), 0)
              ELSE None)
        ELSE IF Cardinality(nums) > 1 \/ Cardinality(mons) > 1
                \/ Cardinality(years) > 1 \/ Cardinality(times) > 1
        THEN None
        ELSE LET y == IF years = {} THEN now.y ELSE s[Min(years)].year
                 m == IF mons = {} THEN now.m ELSE MonthNum(s[Min(mons)].mon)
                 dim == DaysInMonth(y, m)
                 d == IF nums = {} THEN (IF now.d > dim THEN dim ELSE now.d)
                      ELSE s[Min(nums)].num
                 t == IF times = {} THEN <<0, 0>> ELSE s[Min(times)].time
             IN  IF d < 1 \/ d > dim \/ t[1] > 23 \/ t[2] > 59 THEN None
                 ELSE DateTime(Date(y, m, d), t[1] * 60 + t[2])

parse_maybe_dt(s, now) ==
    IF s = <<>> THEN None ELSE DateutilParse(s, now)

-----------------------------------------------------------------------------
(* The regular expressions of parse_date_range_from_text, on tokens *)

\* the token at position i, or a token no pattern accepts past the end
At(j, i) == IF i \in 1..Len(j) THEN j[i] ELSE Word("")

\* lines = [l.strip() for l in text.splitlines() if l.strip()]; " ".join(lines)
RECURSIVE Joined(_)
Joined(text) ==
    IF text = <<>> THEN <<>> ELSE Head(text) \o Joined(Tail(text))

\* re.search: the leftmost position at which the pattern matches, 0 for no match
Leftmost(S) == IF S = {} THEN 0 ELSE Min(S)

\* \b(\d{1,2})\s*(?:-|to)\s*(\d{1,2})\s+MONTHS\s+(\d{4})\b
Match1(j, i) ==
    /\ IsNum(At(j, i)) /\ IsSep(At(j, i + 1)) /\ IsNum(At(j, i + 2))
    /\ IsMon(At(j, i + 3)) /\ IsYear(At(j, i + 4))

Search1(j) == Leftmost({i \in 1..Len(j) : Match1(j, i)})

Groups1(j, i) == << <<j[i]>>, <<j[i + 2]>>, <<j[i + 3]>>, <<j[i + 4]>> >>

\* \b(\d{1,2}\s+MONTHS\s+\d{4})\s*(?:-|to)\s*(\d{1,2}\s+MONTHS?\s*\d{4}?)\b
\* MONTHS is itself a group, so the groups are: first date, its month,
\* second date, its month (None when absent).  \d{4}? is a lazy {4}: the
\* second year is required.
Match2(j, i) ==
    /\ IsNum(At(j, i)) /\ IsMon(At(j, i + 1)) /\ IsYear(At(j, i + 2))
    /\ IsSep(At(j, i + 3)) /\ IsNum(At(j, i + 4))
    /\ \/ IsMon(At(j, i + 5)) /\ IsYear(At(j, i + 6))
       \/ IsYear(At(j, i + 5))

Search2(j) == Leftmost({i \in 1..Len(j) : Match2(j, i)})

Groups2(j, i) ==
    LET withMon == IsMon(At(j, i + 5))
    IN  << SubSeq(j, i, i + 2),
           <<j[i + 1]>>,
           IF withMon THEN SubSeq(j, i + 4, i + 6) ELSE SubSeq(j, i + 4, i + 5),
           IF withMon THEN <<j[i + 5]>> ELSE <<>> >>

\* \b(\d{1,2}\s+MONTHS\s+\d{4})\s+(\d{1,2}:\d{2})(?:\s*[-]\s*(\d{1,2}:\d{2}))?
\* groups: date, its month, first time, second time (None when absent)
Match3(j, i) ==
    /\ IsNum(At(j, i)) /\ IsMon(At(j, i + 1)) /\ IsYear(At(j, i + 2))
    /\ IsTime(At(j, i + 3))

Search3(j) == Leftmost({i \in 1..Len(j) : Match3(j, i)})

Groups3(j, i) ==
    LET second == /\ IsSep(At(j, i + 4)) /\ At(j, i + 4).sep # "to"
                  /\ IsTime(At(j, i + 5))
    IN  << SubSeq(j, i, i + 2),
           <<j[i + 1]>>,
           <<j[i + 3]>>,
           IF second THEN <<j[i + 5]>> ELSE <<>> >>

\* \b(\d{1,2}\s+MONTHS\s+\d{4})\b   groups: date, its month
Match4(j, i) ==
    IsNum(At(j, i)) /\ IsMon(At(j, i + 1)) /\ IsYear(At(j, i + 2))

Search4(j) == Leftmost({i \in 1..Len(j) : Match4(j, i)})

Groups4(j, i) == << SubSeq(j, i, i + 2), <<j[i + 1]>> >>

-----------------------------------------------------------------------------
(* parse_date_range_from_text *)

Triple(s, e, ht) == [start |-> s, end |-> e, has_time |-> ht]

\* what a pattern's block does: [ret |-> TRUE, val |-> the triple returned],
\* or [ret |-> FALSE] when control falls through to the next pattern

\* lines 60-70
Pattern1(j, now) ==
    LET i == Search1(j)
        g == Groups1(j, i)
        start == parse_maybe_dt(g[1] \o g[3] \o g[4], now)
        end == parse_maybe_dt(g[2] \o g[3] \o g[4], now)
    IN  IF i # 0 /\ start # None /\ end # None
        THEN [ret |-> TRUE, val |-> Triple(start, end, FALSE)]
        ELSE [ret |-> FALSE]

\* lines 73-80: s1, s2 = m.groups()[0], m.group(2)
Pattern2(j, now) ==
    LET i == Search2(j)
        g == Groups2(j, i)
        s1 == g[1]
        s2 == g[2]
        s == parse_maybe_dt(s1, now)
        e == parse_maybe_dt(s2, now)
    IN  IF i # 0 /\ s # None /\ e # None
        THEN [ret |-> TRUE, val |-> Triple(s, e, FALSE)]
        ELSE [ret |-> FALSE]

\* lines 83-90: dpart, t1, t2 = m.group(1), m.group(2), m.group(3)
Pattern3(j, now) ==
    LET i == Search3(j)
        g == Groups3(j, i)
        dpart == g[1]
        t1 == g[2]
        t2 == g[3]
        s == parse_maybe_dt(dpart \o t1, now)
        e == IF t2 # <<>> THEN parse_maybe_dt(dpart \o t2, now) ELSE None
    IN  IF i # 0
        THEN [ret |-> TRUE, val |-> Triple(s, e, TRUE)]
        ELSE [ret |-> FALSE]

\* lines 93-97
Pattern4(j, now) ==
    LET i == Search4(j)
        g == Groups4(j, i)
        d == parse_maybe_dt(g[1], now)
    IN  IF i # 0 /\ d # None
        THEN [ret |-> TRUE, val |-> Triple(d, None, FALSE)]
        ELSE [ret |-> FALSE]

\* the single-date pattern tried before the date-with-time pattern
parse_date_range_single_first(text, now) ==
    LET joined == Joined(text)
    IN  IF Pattern1(joined, now).ret THEN Pattern1(joined, now).val
        ELSE IF Pattern2(joined, now).ret THEN Pattern2(joined, now).val
        ELSE IF Pattern4(joined, now).ret THEN Pattern4(joined, now).val
        ELSE IF Pattern3(joined, now).ret THEN Pattern3(joined, now).val
        ELSE Triple(None, None, FALSE)

parse_date_range_from_text(text, now) ==
    LET joined == Joined(text)
    IN  IF Pattern1(joined, now).ret THEN Pattern1(joined, now).val
        ELSE IF Pattern2(joined, now).ret THEN Pattern2(joined, now).val
        ELSE IF Pattern3(joined, now).ret THEN Pattern3(joined, now).val
        ELSE IF Pattern4(joined, now).ret THEN Pattern4(joined, now).val
        ELSE Triple(None, None, FALSE)

-----------------------------------------------------------------------------
(* scrape_one *)

Brand == <<"International", "Chess", "Federation">>

\* the Python test: sub in s
Contains(s, sub) ==
    \E i \in 0..(Len(s) - Len(sub)) : SubSeq(s, i + 1, i + Len(sub)) = sub

\* a.filter(Boolean): the non-empty strings of a, in order
RECURSIVE FilterBoolean(_)
FilterBoolean(a) ==
    IF a = <<>> THEN <<>>
    ELSE (IF Head(a) # <<>> THEN <<Head(a)>> ELSE <<>>) \o FilterBoolean(Tail(a))

\* the script page.evaluate runs: the text of the main block, and
\* [h1, h2, document.title].filter(Boolean)
PageEvaluate(dom) ==
    [text |-> dom.text,
     titleCandidates |-> FilterBoolean(<<dom.h1, dom.h2, dom.title>>)]

\* re.sub(r"\n{3,}", "\n\n", s): a run of blank lines becomes one blank line
RECURSIVE CollapseBlank(_)
CollapseBlank(lines) ==
    IF Len(lines) < 2 THEN lines
    ELSE IF lines[1] = <<>> /\ lines[2] = <<>> THEN CollapseBlank(Tail(lines))
    ELSE <<lines[1]>> \o CollapseBlank(Tail(lines))

\* s.strip(): no blank line at either end
RECURSIVE StripBlank(_)
StripBlank(lines) ==
    IF lines = <<>> THEN <<>>
    ELSE IF Head(lines) = <<>> THEN StripBlank(Tail(lines))
    ELSE IF lines[Len(lines)] = <<>>
    THEN StripBlank(SubSeq(lines, 1, Len(lines) - 1))
    ELSE lines

clean_text(s) == StripBlank(CollapseBlank(s))

\* the default title whenever no candidate is kept
TitleOf_DefaultWhenFiltered(titleCandidates) ==
    LET ok == {i \in 1..Len(titleCandidates) :
                 /\ titleCandidates[i] # <<>>
                 /\ ~Contains(titleCandidates[i], Brand)}
    IN  IF ok # {} THEN titleCandidates[Min(ok)] ELSE <<"FIDE", "Event">>

\* lines 128-134
TitleOf(titleCandidates) ==
    LET ok == {i \in 1..Len(titleCandidates) :
                 /\ titleCandidates[i] # <<>>
                 /\ ~Contains(titleCandidates[i], Brand)}
    IN  IF ok # {} THEN titleCandidates[Min(ok)]
        ELSE IF titleCandidates # <<>> THEN titleCandidates[1]
        ELSE <<"FIDE", "Event">>

\* key = m.group(1).strip().lower()
Lower(l) ==
    CASE l = "Date" -> "date"
      [] l = "Dates" -> "dates"
      [] l = "Start" -> "start"
      [] l = "Start Date" -> "start date"
      [] l = "From" -> "from"
      [] l = "End" -> "end"
      [] l = "End Date" -> "end date"
      [] l = "Venue" -> "venue"
      [] OTHER -> l

\* re.match(r"^\s*([A-Za-z ]{3,30})\s*:\s*(.+)$", line)
IsFieldLine(line) == Len(line) >= 2 /\ IsLabel(line[1])

\* lines 137-143: the later line of a key wins
ExtractFields(text) ==
    LET at == {i \in 1..Len(text) : IsFieldLine(text[i])}
        keys == {Lower(text[i][1].label) : i \in at}
        last(key) == CHOOSE i \in at :
                        /\ Lower(text[i][1].label) = key
                        /\ \A n \in at : Lower(text[n][1].label) = key => n <= i
    IN  [key \in keys |-> Tail(text[last(key)])]

\* fields.get(key): None (the empty string here) when absent
Get(fields, key) == IF key \in DOMAIN fields THEN fields[key] ELSE <<>>

first_nonempty(vals) ==
    LET ok == {i \in 1..Len(vals) : vals[i] # <<>>}
    IN  IF ok = {} THEN <<>> ELSE vals[Min(ok)]

\* lines 162-164
DateStage(date_val, now) ==
    IF date_val # <<>> THEN parse_date_range_from_text(<<date_val>>, now)
    ELSE Triple(None, None, FALSE)

\* lines 166-173
StartEndStage(st, start_val, end_val, now) ==
    IF st.start = None /\ (start_val # <<>> \/ end_val # <<>>)
    THEN LET s == IF start_val # <<>> THEN parse_maybe_dt(start_val, now) ELSE None
             e == IF end_val # <<>> THEN parse_maybe_dt(end_val, now) ELSE None
             r == parse_date_range_from_text(<<start_val>>, now)
         IN  IF s = None /\ start_val # <<>>
             THEN Triple(r.start, r.end, r.has_time)
             ELSE Triple(s, e, st.has_time)
    ELSE st

\* the whole text never consulted
TextStage_NoFallback(st, text, now) == st

\* lines 175-177
TextStage(st, text, now) ==
    IF st.start = None THEN parse_date_range_from_text(text, now) ELSE st

\* lines 124-205, after page.evaluate
scrape_one(payload, url, now) ==
    LET text == clean_text(payload.text)
        fields == ExtractFields(text)
        date_val == first_nonempty(<<Get(fields, "date"), Get(fields, "dates")>>)
        start_val == first_nonempty(<<Get(fields, "start"),
                                      Get(fields, "start date"), Get(fields, "from")>>)
        end_val == first_nonempty(<<Get(fields, "end"),
                                    Get(fields, "end date"), Get(fields, "to")>>)
        st == TextStage(StartEndStage(DateStage(date_val, now),
                                      start_val, end_val, now), text, now)
    IN  [title |-> TitleOf(payload.titleCandidates),
         start_dt |-> st.start,
         end_dt |-> st.end,
         has_time |-> st.has_time,
         url |-> url]

-----------------------------------------------------------------------------
(* write_ics *)

\* sha256(url).hexdigest()[:32] + "@fid-event-scrape"
event_uid(url) == <<"sha256", url, "@fid-event-scrape">>

\* the end of an all-day event left on its last day
EncodeEvent_InclusiveEnd(r, day) ==
    LET base == [uid |-> event_uid(r.url), name |-> r.title]
    IN  IF r.start_dt # None
        THEN IF r.has_time \/ r.start_dt.tod # 0
             THEN base @@ [begin |-> r.start_dt, end |-> r.end_dt, all_day |-> FALSE]
             ELSE LET start_d == r.start_dt.date
                      end_d == IF r.end_dt # None THEN r.end_dt.date ELSE start_d
                  IN  base @@ [begin |-> start_d, end |-> end_d, all_day |-> TRUE]
        ELSE base @@ [begin |-> day, end |-> None, all_day |-> TRUE]

\* lines 211-236: ev.end = None stands for an end that was never set
EncodeEvent(r, day) ==
    LET base == [uid |-> event_uid(r.url), name |-> r.title]
    IN  IF r.start_dt # None
        THEN IF r.has_time \/ r.start_dt.tod # 0
             THEN base @@ [begin |-> r.start_dt, end |-> r.end_dt, all_day |-> FALSE]
             ELSE LET start_d == r.start_dt.date
                      end_d == IF r.end_dt # None THEN r.end_dt.date ELSE start_d
                  IN  base @@ [begin |-> start_d, end |-> AddDay(end_d),
                               all_day |-> TRUE]
        ELSE base @@ [begin |-> day, end |-> None, all_day |-> TRUE]

\* cal.events is a set and two events are equal when their uids are: adding
\* an event whose uid is in the set leaves the set as it is
AddEvent(set, e) ==
    IF \E x \in set : x.uid = e.uid THEN set ELSE set \cup {e}

\* the set is iterated in the order of the slots its elements' hashes give
\* them, whatever the order they were added in
IterateSet(set, slots) ==
    CHOOSE s \in [1..Cardinality(set) -> set] :
        /\ \A e \in set : \E i \in DOMAIN s : s[i] = e
        /\ \A i, n \in DOMAIN s : i < n => slots[s[i].uid[2]] < slots[s[n].uid[2]]

-----------------------------------------------------------------------------
(* Inputs *)

\* lines of a page text, and URLs of the list, at most
MaxLines == 2
MaxUrls == 2

SeqsUpTo(S, n) == UNION {[1..m -> S] : m \in 0..n}

Days == {20, 31}
SecondDays == {25}
Months == {"Feb", "Aug"}
Years == {2025}
Times == {<<14, 0>>, <<25, 0>>}

\* the days the program may run on
Todays == {Date(2026, 11, 5), Date(2025, 8, 31)}

Single(d, m, y) == <<Num(d), Mon(m), Year(y)>>
Range1(d1, d2, m, y) == <<Num(d1), Sep("-"), Num(d2), Mon(m), Year(y)>>
Range2(d1, m1, y1, d2, m2, y2) ==
    Single(d1, m1, y1) \o <<Sep("to"), Num(d2)>>
        \o (IF m2 = "" THEN <<>> ELSE <<Mon(m2)>>) \o <<Year(y2)>>
Stamp(d, m, y, t) == Single(d, m, y) \o <<Time(t[1], t[2])>>

Singles == {Single(d, m, y) : d \in Days, m \in Months, y \in Years}
Range1s == {Range1(d1, d2, m, y) : d1 \in Days, d2 \in Days, m \in Months, y \in Years}
Range2s == {Range2(d1, m1, y, d2, m2, y) :
               d1 \in Days, m1 \in Months, d2 \in SecondDays,
               m2 \in Months \cup {""}, y \in Years}
Stamps == {Stamp(d, m, y, t) : d \in Days, m \in Months, y \in Years, t \in Times}
Others == {<<Iso(2025, 8, 20)>>, <<Word("tba")>>}

\* the texts the resolver is tried on: one date shape per line
ResolveLines == Singles \cup Range1s \cup Range2s \cup Stamps \cup Others
ResolveTexts == SeqsUpTo(ResolveLines, MaxLines)

\* the pages scrape_one is tried on: each line a date shape, bare or as the
\* value of a Date, Start or End field, or a blank line
ScrapeShapes ==
    {Single(20, "Aug", 2025), Single(31, "Feb", 2025),
     Range1(20, 31, "Aug", 2025), Range1(31, 20, "Aug", 2025),
     Range2(20, "Aug", 2025, 25, "", 2025),
     Stamp(20, "Aug", 2025, <<14, 0>>), Stamp(31, "Feb", 2025, <<14, 0>>),
     Stamp(20, "Aug", 2025, <<25, 0>>)}
        \cup Others
ScrapeLabels == {"Date", "Start", "End"}
ScrapeLines ==
    ScrapeShapes \cup {<<Label(l)>> \o f : l \in ScrapeLabels, f \in ScrapeShapes}
        \cup {<<>>}
Titles == {<<>>, Brand, <<"World", "Cup">>, <<"FIDE", "-">> \o Brand}
ScrapeDoms ==
    {[text |-> t, h1 |-> <<"World", "Cup">>, h2 |-> <<>>, title |-> Brand] :
        t \in SeqsUpTo(ScrapeLines, MaxLines)}
    \cup {[text |-> <<>>, h1 |-> a, h2 |-> b, title |-> c] :
            a \in Titles, b \in Titles, c \in Titles}

\* the pages the whole run is tried on
MainTexts ==
    {<<>>,
     << <<Label("Date")>> \o Single(20, "Aug", 2025) >>,
     << <<Label("Date")>> \o Range1(20, 31, "Aug", 2025) >>,
     << <<Label("Date")>> \o Range1(31, 20, "Aug", 2025) >>,
     << <<Label("Start")>> \o Stamp(20, "Aug", 2025, <<14, 0>>) >>,
     << <<Label("Start")>> \o Stamp(20, "Aug", 2025, <<14, 0>>),
        <<Label("End")>> \o Single(31, "Aug", 2025) >>,
     << <<Label("Date")>> \o Stamp(20, "Aug", 2025, <<14, 0>>) >>,
     << <<Label("Date")>> \o Stamp(31, "Feb", 2025, <<14, 0>>),
        <<Label("Start")>> \o Single(20, "Aug", 2025) >>}
MainDoms ==
    {[text |-> t, h1 |-> <<"World", "Cup">>, h2 |-> <<>>, title |-> Brand] :
        t \in MainTexts}

\* lines 10-24, two of them
UrlSet == {"id=3079", "id=3220"}

\* the slots the hashes of the uids can fall in
SlotOrders ==
    {f \in [UrlSet -> 1..Cardinality(UrlSet)] :
        \A a, b \in UrlSet : a # b => f[a] # f[b]}

NoPayload == [text |-> <<>>, titleCandidates |-> <<>>]

-----------------------------------------------------------------------------
(* main: the scrape loop, then write_ics *)

Init ==
    /\ URLS \in SeqsUpTo(UrlSet, MaxUrls)
    /\ today \in Todays
    /\ slot \in SlotOrders
    /\ pc = "scrape"
    /\ full = NoPayload
    /\ results = <<>>
    /\ events = {}
    /\ ev = None
    /\ k = 0
    /\ doc = <<>>
    /\ res = None

\* lines 106-123: the page is fetched and evaluated
Goto ==
    /\ pc = "scrape"
    /\ Len(results) < Len(URLS)
    /\ \E dom \in MainDoms : full' = PageEvaluate(dom)
    /\ pc' = "fetched"
    /\ UNCHANGED <<URLS, today, slot, results, events, ev, k, doc, res>>

\* lines 124-205 and line 250: the record is assembled and appended
ScrapeOne ==
    /\ pc = "fetched"
    /\ results' = Append(results, scrape_one(full, URLS[Len(results) + 1], today))
    /\ pc' = "scrape"
    /\ UNCHANGED <<URLS, today, slot, full, events, ev, k, doc, res>>

\* lines 252, 208-209: cal = Calendar()
StartWrite ==
    /\ pc = "scrape"
    /\ Len(results) = Len(URLS)
    /\ events' = {}
    /\ k' = 0
    /\ pc' = "encode"
    /\ UNCHANGED <<URLS, today, slot, full, results, ev, doc, res>>

\* lines 210-238: one turn of the loop over the records
EncodeOne ==
    /\ pc = "encode"
    /\ k < Len(results)
    /\ ev' = EncodeEvent(results[k + 1], today)
    /\ events' = AddEvent(events, ev')
    /\ k' = k + 1
    /\ UNCHANGED <<URLS, today, slot, pc, full, results, doc, res>>

\* lines 240-242: the calendar is written out
Serialize ==
    /\ pc = "encode"
    /\ k = Len(results)
    /\ doc' = IterateSet(events, slot)
    /\ pc' = "done"
    /\ UNCHANGED <<URLS, today, slot, full, results, events, ev, k, res>>

Next == Goto \/ ScrapeOne \/ StartWrite \/ EncodeOne \/ Serialize

Spec == Init /\ [][Next]_vars

-----------------------------------------------------------------------------
(* One URL, its page any page of ScrapeDoms: scrape_one, then write_ics *)

InitScrape ==
    /\ URLS = <<"id=3079">>
    /\ today \in Todays
    /\ slot = [u \in UrlSet |-> IF u = "id=3079" THEN 1 ELSE 2]
    /\ pc = "fetched"
    /\ full \in {PageEvaluate(dom) : dom \in ScrapeDoms}
    /\ results = <<>>
    /\ events = {}
    /\ ev = None
    /\ k = 0
    /\ doc = <<>>
    /\ res = None

NextScrape == ScrapeOne \/ StartWrite \/ EncodeOne \/ Serialize

SpecScrape == InitScrape /\ [][NextScrape]_vars

-----------------------------------------------------------------------------
(* parse_date_range_from_text alone, on every text of ResolveTexts *)

InitResolve ==
    /\ URLS = <<>>
    /\ today \in Todays
    /\ slot \in SlotOrders
    /\ pc = "resolve"
    /\ full \in {[text |-> t, titleCandidates |-> <<>>] : t \in ResolveTexts}
    /\ results = <<>>
    /\ events = {}
    /\ ev = None
    /\ k = 0
    /\ doc = <<>>
    /\ res = None

Resolve ==
    /\ pc = "resolve"
    /\ res' = parse_date_range_from_text(full.text, today)
    /\ pc' = "resolved"
    /\ UNCHANGED <<URLS, today, slot, full, results, events, ev, k, doc>>

SpecResolve == InitResolve /\ [][Resolve]_vars

-----------------------------------------------------------------------------
(* Properties *)

\* the number of the day dt, counted from 1 January of year 1
RECURSIVE DaysBefore(_, _)
DaysBefore(y, m) ==
    IF m = 1 THEN 0 ELSE DaysBefore(y, m - 1) + DaysInMonth(y, m - 1)

Ordinal(dt) ==
    365 * (dt.y - 1) + ((dt.y - 1) \div 4) - ((dt.y - 1) \div 100)
        + ((dt.y - 1) \div 400) + DaysBefore(dt.y, dt.m) + dt.d

\* the event ev was encoded from the record results[k]
Encoded == k >= 1

\* C1: write_ics produces exactly one calendar event per record: the number
\* of events in the calendar that is written equals the number of input
\* URLs, whatever the records are (the same URL twice included).
C1_OneEventPerRecord ==
    pc = "done" =>
        /\ Cardinality(events) = Len(URLS)
        /\ Len(doc) = Len(URLS)

\* C2: the order of the events in the document equals the order of the URL
\* list: of two events, the one whose URL comes first in URLS is first.
C2_OutputOrderIsInputOrder ==
    pc = "done" =>
        \A i, n \in 1..Len(doc) :
            i < n =>
                \E a, b \in 1..Len(URLS) :
                    /\ a < b
                    /\ doc[i].uid = event_uid(URLS[a])
                    /\ doc[n].uid = event_uid(URLS[b])

\* C3: an all-day event of a record with a start begins on the date part of
\* the start and ends exactly one calendar day after the date part of the
\* end, or of the start when the record has no end.
C3_ExclusiveEnd ==
    Encoded /\ ev.all_day /\ results[k].start_dt # None =>
        LET r == results[k]
            last == IF r.end_dt # None THEN r.end_dt.date ELSE r.start_dt.date
        IN  /\ ev.begin = r.start_dt.date
            /\ ev.end # None
            /\ Ordinal(ev.end) = Ordinal(last) + 1

\* an all-day event with an end was encoded from a record with start and end,
\* the end the last day of its month
C3_Witness ==
    /\ Encoded /\ ev.all_day
    /\ results[k].start_dt # None /\ results[k].end_dt # None
    /\ ev.end.d = 1

\* C4: a record is encoded Timed whenever has_time is true or its start has
\* a time of day other than midnight: the event begins at start and ends at
\* end, or has no end when the record has none.
C4_TimedWheneverHasTime ==
    Encoded =>
        LET r == results[k]
        IN  (r.has_time \/ (r.start_dt # None /\ r.start_dt.tod # 0)) =>
                /\ ~ev.all_day
                /\ ev.begin = r.start_dt
                /\ ev.end = r.end_dt

\* the page text scrape_one worked on, and the record it returned
Scraped == Len(results) = 1
PageText == clean_text(full.text)

\* no date pattern matches the text: every pattern holds a day, a month and
\* a year, which is pattern 4
NoPatternMatches(text) == Search4(Joined(text)) = 0

\* the value of the start, start date or from field, None when there is none
StartValue(text) ==
    LET fields == ExtractFields(text)
    IN  first_nonempty(<<Get(fields, "start"), Get(fields, "start date"),
                         Get(fields, "from")>>)

\* the event is the all-day placeholder
IsPlaceholder(e, day) == e.all_day /\ e.begin = day /\ e.end = None

\* C5, as claimed: the empty text has an empty field map; for the empty
\* text, and for any text in which no date pattern matches, the record has
\* no start and the event is an all-day event on the processing date with
\* no end.
C5_NoPatternGivesPlaceholder ==
    /\ Scraped /\ PageText = <<>> => ExtractFields(PageText) = << >>
    /\ Scraped /\ Encoded /\ NoPatternMatches(PageText) =>
            /\ results[1].start_dt = None
            /\ ~results[1].has_time
            /\ IsPlaceholder(ev, today)

\* C5, amended: the empty text has an empty field map; for the empty text,
\* and for any text in which no date pattern matches and whose start field,
\* if there is one, is no date dateutil parses, the resolver returns
\* (None, None, false), the record has no start, no end and has_time false,
\* and the event is an all-day event on the processing date with no end.
C5_UnresolvedGivesPlaceholder ==
    /\ Scraped /\ PageText = <<>> => ExtractFields(PageText) = << >>
    /\ Scraped /\ Encoded /\ NoPatternMatches(PageText)
         /\ parse_maybe_dt(StartValue(PageText), today) = None =>
            /\ parse_date_range_from_text(PageText, today) = Triple(None, None, FALSE)
            /\ results[1].start_dt = None
            /\ results[1].end_dt = None
            /\ ~results[1].has_time
            /\ IsPlaceholder(ev, today)

\* a page with an End field that is a date, no other date on it, was encoded
C5_Witness ==
    /\ Scraped /\ Encoded /\ NoPatternMatches(PageText)
    /\ PageText # <<>>
    /\ "end" \in DOMAIN ExtractFields(PageText)
    /\ parse_maybe_dt(ExtractFields(PageText)["end"], today) # None
    /\ parse_maybe_dt(StartValue(PageText), today) = None
    /\ IsPlaceholder(ev, today)

\* the resolver has returned res for the text full.text
Resolved == pc = "resolved"

\* the first pattern, in the order 1 to 4, that matches j; 0 when none does
FirstMatching(j) ==
    IF Search1(j) # 0 THEN 1
    ELSE IF Search2(j) # 0 THEN 2
    ELSE IF Search3(j) # 0 THEN 3
    ELSE IF Search4(j) # 0 THEN 4
    ELSE 0

PatternBlock(n, j, now) ==
    CASE n = 1 -> Pattern1(j, now)
      [] n = 2 -> Pattern2(j, now)
      [] n = 3 -> Pattern3(j, now)
      [] n = 4 -> Pattern4(j, now)

\* C6, as claimed: the result is the one the first pattern that matches the
\* text produces (nothing, when its dates do not parse); no pattern after it
\* contributes.
C6_FirstMatchWins ==
    Resolved =>
        LET j == Joined(full.text)
            n == FirstMatching(j)
        IN  IF n # 0 /\ PatternBlock(n, j, today).ret
            THEN res = PatternBlock(n, j, today).val
            ELSE res = Triple(None, None, FALSE)

\* C6, amended: the result is the one produced by the first pattern, in the
\* order 1, 2, 3, 4, that matches the text and returns: patterns 1 and 2
\* return when both their dates parse, pattern 4 when its date parses, and
\* pattern 3 whenever it matches; a pattern that matches and does not return
\* leaves the result to the patterns after it.  The result of pattern 3 has
\* has_time true, that of the others has_time false and a start; when no
\* pattern returns the result is (None, None, false).
C6_FirstReturningWins ==
    Resolved =>
        LET j == Joined(full.text)
            returning == {n \in 1..4 : PatternBlock(n, j, today).ret}
        IN  IF returning = {}
            THEN res = Triple(None, None, FALSE)
            ELSE /\ res = PatternBlock(Min(returning), j, today).val
                 /\ res.has_time = (Min(returning) = 3)
                 /\ Min(returning) # 3 => res.start # None
                 /\ Min(returning) \in {1, 2} => res.end # None
                 /\ Min(returning) = 4 => res.end = None

\* pattern 1 matched, its dates did not parse, and a later pattern gave the
\* result
C6_Witness ==
    /\ Resolved
    /\ Search1(Joined(full.text)) # 0
    /\ ~Pattern1(Joined(full.text), today).ret
    /\ res.start # None

\* C7, as claimed: the dates of a record come from the date field when it
\* yields a start, else from the start and end fields when they yield a
\* start, else from the whole text; nothing of a stage that yielded no start
\* is left in the record.
C7_NoLeftover ==
    Scraped =>
        LET fields == ExtractFields(PageText)
            date_val == first_nonempty(<<Get(fields, "date"), Get(fields, "dates")>>)
            start_val == StartValue(PageText)
            end_val == first_nonempty(<<Get(fields, "end"), Get(fields, "end date"),
                                        Get(fields, "to")>>)
            byDate == parse_date_range_from_text(<<date_val>>, today)
            s == parse_maybe_dt(start_val, today)
            e == parse_maybe_dt(end_val, today)
            byStart == parse_date_range_from_text(<<start_val>>, today)
            byText == parse_date_range_from_text(PageText, today)
            r == results[1]
            got == Triple(r.start_dt, r.end_dt, r.has_time)
        IN  IF date_val # <<>> /\ byDate.start # None THEN got = byDate
            ELSE IF s # None THEN got = Triple(s, e, FALSE)
            ELSE IF start_val # <<>> /\ byStart.start # None THEN got = byStart
            ELSE got = byText

\* C8: a record with has_time true has a start; the start and the end of a
\* record with has_time false are calendar dates, at midnight.
C8_HasTimeInvariant ==
    Scraped =>
        LET r == results[1]
        IN  /\ r.has_time => r.start_dt # None
            /\ ~r.has_time =>
                  /\ r.start_dt # None => r.start_dt.tod = 0
                  /\ r.end_dt # None => r.end_dt.tod = 0

IsGeneric(title) == Contains(title, Brand)

\* C9, as claimed: the title is the first non-empty candidate that is not
\* generic, and the default title when there is none; it is never generic.
C9_TitleNeverGeneric ==
    Scraped =>
        LET c == full.titleCandidates
            t == results[1].title
        IN  /\ ~IsGeneric(t)
            /\ (\A i \in 1..Len(c) : c[i] = <<>> \/ IsGeneric(c[i]))
                  => t = <<"FIDE", "Event">>

\* C9, amended: the title is the first non-empty candidate that is not
\* generic; if every candidate is generic and the list is not empty, the
\* title is the first candidate, a generic one; if the list is empty, the
\* title is the default title.
C9_TitlePrefersSpecific ==
    Scraped =>
        LET c == full.titleCandidates
            t == results[1].title
            specific(i) == c[i] # <<>> /\ ~IsGeneric(c[i])
        IN  /\ \A i \in 1..Len(c) :
                  specific(i) /\ (\A n \in 1..(i - 1) : ~specific(n)) => t = c[i]
            /\ (c # <<>> /\ \A i \in 1..Len(c) : ~specific(i)) => t = c[1]
            /\ c = <<>> => t = <<"FIDE", "Event">>

\* every candidate of a page was generic, and the title is the first of them
C9_Witness ==
    /\ Scraped
    /\ Len(full.titleCandidates) >= 2
    /\ \A i \in 1..Len(full.titleCandidates) : IsGeneric(full.titleCandidates[i])
    /\ results[1].title = full.titleCandidates[1]

\* C10: for a text D1 Month1 Year1 <sep> D2 [Month2] Year2 whose days exist,
\* the result is start = D1 Month1 Year1, end = D2 Month2 Year2 with Month1
\* for an absent Month2, has_time false.
C10_SecondDateInherits ==
    Resolved /\ Len(full.text) = 1 /\ full.text[1] \in Range2s =>
        LET f == full.text[1]
            m1 == MonthNum(f[2].mon)
            m2 == IF IsMon(f[6]) THEN MonthNum(f[6].mon) ELSE m1
            y2 == f[Len(f)].year
        IN  (f[1].num <= DaysInMonth(f[3].year, m1) /\ f[5].num <= DaysInMonth(y2, m2))
                => res = Triple(DateTime(Date(f[3].year, m1, f[1].num), 0),
                                DateTime(Date(y2, m2, f[5].num), 0),
                                FALSE)

=============================================================================
